---- MODULE Spec2Model ----
(***************************************************************************)
(* Model of the SVG transform engine of replicad-decorate                  *)
(* (src/src/parseSVG.js): parseTransform, transformPathData,               *)
(* transformRect, transformEllipse and the per-run transform cache of      *)
(* drawSVG.                                                                *)
(*                                                                         *)
(* Numbers.  A JavaScript value that the code computes with is one of      *)
(*   [t |-> "number", v |-> n]   a number (the model keeps to integers),   *)
(*   [t |-> "NaN", v |-> 0]      NaN,                                      *)
(*   [t |-> "undefined", v |-> 0] undefined (an array read past the end).  *)
(* Strings are sequences of one-character strings.  The alphabet of the    *)
(* inputs has no "." and no exponent, so every numeric token is an         *)
(* integer; trigonometric functions are only evaluated at angle 0, where   *)
(* Math.cos, Math.sin and Math.tan are exact.                              *)
(***************************************************************************)
EXTENDS Integers, Sequences, FiniteSets, TLC

VARIABLES
    call,            \* the call being made: function name and its arguments
    result,          \* what the call returned (or that it threw)
    pc,              \* "ready" before the call, "done" after it
    transformCache,  \* drawSVG: the Map of transform attribute -> matrix
    phase,           \* drawSVG: which element loop is running
    processed        \* drawSVG: number of elements processed so far

vars == <<call, result, pc, transformCache, phase, processed>>

---------------------------------------------------------------------------
(* Bounds of the model *)

MaxCmds == 2
MaxGroups == 2
MaxElements == 3

---------------------------------------------------------------------------
(* JavaScript values and arithmetic *)

Num(n) == [t |-> "number", v |-> n]
NaN == [t |-> "NaN", v |-> 0]
Undefined == [t |-> "undefined", v |-> 0]

IsNumber(x) == x.t = "number"

\* x + y, x - y, x * y on JavaScript numbers: NaN and undefined operands give NaN
Add(x, y) == IF IsNumber(x) /\ IsNumber(y) THEN Num(x.v + y.v) ELSE NaN
Sub(x, y) == IF IsNumber(x) /\ IsNumber(y) THEN Num(x.v - y.v) ELSE NaN
Mul(x, y) == IF IsNumber(x) /\ IsNumber(y) THEN Num(x.v * y.v) ELSE NaN
Neg(x) == IF IsNumber(x) THEN Num(0 - x.v) ELSE NaN

\* x === n for a numeric literal n (NaN and undefined are never === a number)
StrictEq(x, n) == IsNumber(x) /\ x.v = n

\* x || dflt : undefined, NaN and 0 are falsy
OrDefault(x, dflt) == IF IsNumber(x) /\ x.v # 0 THEN x ELSE dflt

\* Math.abs
Abs(x) == IF IsNumber(x) THEN (IF x.v < 0 THEN Num(0 - x.v) ELSE x) ELSE NaN

\* Math.min(x, y), Math.max(x, y): NaN if either argument is NaN
Min2(x, y) == IF IsNumber(x) /\ IsNumber(y) THEN (IF y.v < x.v THEN y ELSE x) ELSE NaN
Max2(x, y) == IF IsNumber(x) /\ IsNumber(y) THEN (IF y.v > x.v THEN y ELSE x) ELSE NaN

\* args[i] with a 0-based index: undefined past the end of the array
Arg(args, i) == IF i < Len(args) THEN args[i + 1] ELSE Undefined

\* Math.cos, Math.sin, Math.tan of (deg * Math.PI / 180); exact only at 0
Cos(deg) == IF ~IsNumber(deg) THEN NaN
            ELSE IF deg.v = 0 THEN Num(1) ELSE CHOOSE r \in {} : TRUE
Sin(deg) == IF ~IsNumber(deg) THEN NaN
            ELSE IF deg.v = 0 THEN Num(0) ELSE CHOOSE r \in {} : TRUE
Tan(deg) == IF ~IsNumber(deg) THEN NaN
            ELSE IF deg.v = 0 THEN Num(0) ELSE CHOOSE r \in {} : TRUE

---------------------------------------------------------------------------
(* Matrix algebra: a matrix is <<a, b, c, d, e, f>> *)

Mat(a, b, c, d, e, f) == <<Num(a), Num(b), Num(c), Num(d), Num(e), Num(f)>>
Identity == Mat(1, 0, 0, 1, 0, 0)

\* multiplyMatrices with the two operands exchanged (m2 x m1)
multiplyMatricesSwapped(m1, m2) ==
    << Add(Mul(m2[1], m1[1]), Mul(m2[3], m1[2])),
       Add(Mul(m2[2], m1[1]), Mul(m2[4], m1[2])),
       Add(Mul(m2[1], m1[3]), Mul(m2[3], m1[4])),
       Add(Mul(m2[2], m1[3]), Mul(m2[4], m1[4])),
       Add(Add(Mul(m2[1], m1[5]), Mul(m2[3], m1[6])), m2[5]),
       Add(Add(Mul(m2[2], m1[5]), Mul(m2[4], m1[6])), m2[6]) >>

multiplyMatrices(m1, m2) ==
    << Add(Mul(m1[1], m2[1]), Mul(m1[3], m2[2])),
       Add(Mul(m1[2], m2[1]), Mul(m1[4], m2[2])),
       Add(Mul(m1[1], m2[3]), Mul(m1[3], m2[4])),
       Add(Mul(m1[2], m2[3]), Mul(m1[4], m2[4])),
       Add(Add(Mul(m1[1], m2[5]), Mul(m1[3], m2[6])), m1[5]),
       Add(Add(Mul(m1[2], m2[5]), Mul(m1[4], m2[6])), m1[6]) >>

\* isIdentityMatrix with the last comparison mistyped (f === 1)
isIdentityMatrixMistyped(matrix) ==
    /\ StrictEq(matrix[1], 1) /\ StrictEq(matrix[2], 0)
    /\ StrictEq(matrix[3], 0) /\ StrictEq(matrix[4], 1)
    /\ StrictEq(matrix[5], 0) /\ StrictEq(matrix[6], 1)

isIdentityMatrix(matrix) ==
    /\ StrictEq(matrix[1], 1) /\ StrictEq(matrix[2], 0)
    /\ StrictEq(matrix[3], 0) /\ StrictEq(matrix[4], 1)
    /\ StrictEq(matrix[5], 0) /\ StrictEq(matrix[6], 0)

applyTransform(matrix, x, y) ==
    << Add(Add(Mul(matrix[1], x), Mul(matrix[3], y)), matrix[5]),
       Add(Add(Mul(matrix[2], x), Mul(matrix[4], y)), matrix[6]) >>

---------------------------------------------------------------------------
(* Strings: sequences of one-character strings *)

\* a missing attribute (getAttribute gave null, or the argument is absent)
Null == <<"null">>

Digits == {"0", "1", "2", "3", "4", "5", "6", "7", "8", "9"}
LowerLetters == {"a", "b", "c", "d", "e", "f", "g", "h", "i", "j", "k", "l", "m",
                 "n", "o", "p", "q", "r", "s", "t", "u", "v", "w", "x", "y", "z"}
UpperLetters == {"A", "B", "C", "D", "E", "F", "G", "H", "I", "J", "K", "L", "M",
                 "N", "O", "P", "Q", "R", "S", "T", "U", "V", "W", "X", "Y", "Z"}

\* the regular-expression classes \w and \s
IsWordChar(ch) == ch \in Digits \cup LowerLetters \cup UpperLetters \cup {"_"}
IsSpace(ch) == ch \in {" "}

DigitVal(ch) ==
    CASE ch = "0" -> 0 [] ch = "1" -> 1 [] ch = "2" -> 2 [] ch = "3" -> 3
      [] ch = "4" -> 4 [] ch = "5" -> 5 [] ch = "6" -> 6 [] ch = "7" -> 7
      [] ch = "8" -> 8 [] ch = "9" -> 9

DigitChar(n) ==
    CASE n = 0 -> "0" [] n = 1 -> "1" [] n = 2 -> "2" [] n = 3 -> "3"
      [] n = 4 -> "4" [] n = 5 -> "5" [] n = 6 -> "6" [] n = 7 -> "7"
      [] n = 8 -> "8" [] n = 9 -> "9"

\* first index >= i whose character does not satisfy the class (Len(s)+1 if none)
RECURSIVE SkipWord(_, _)
SkipWord(s, i) == IF i <= Len(s) /\ IsWordChar(s[i]) THEN SkipWord(s, i + 1) ELSE i

RECURSIVE SkipSpace(_, _)
SkipSpace(s, i) == IF i <= Len(s) /\ IsSpace(s[i]) THEN SkipSpace(s, i + 1) ELSE i

RECURSIVE SkipDigits(_, _)
SkipDigits(s, i) == IF i <= Len(s) /\ s[i] \in Digits THEN SkipDigits(s, i + 1) ELSE i

\* value of the digit string s[i..j-1], continuing from acc
RECURSIVE DigitsValue(_, _, _, _)
DigitsValue(s, i, j, acc) ==
    IF i >= j THEN acc ELSE DigitsValue(s, i + 1, j, acc * 10 + DigitVal(s[i]))

\* parseFloat(s): leading white space, an optional sign, then digits; NaN when
\* no digit follows; anything after the digits is ignored
parseFloat(s) ==
    LET i == SkipSpace(s, 1)
        neg == i <= Len(s) /\ s[i] = "-"
        j == IF i <= Len(s) /\ s[i] \in {"-", "+"} THEN i + 1 ELSE i
        k == SkipDigits(s, j)
    IN  IF k = j THEN NaN
        ELSE IF neg THEN Num(0 - DigitsValue(s, j, k, 0))
        ELSE Num(DigitsValue(s, j, k, 0))

\* Number.prototype.toString for a non-negative integer
RECURSIVE NatToString(_)
NatToString(n) ==
    IF n < 10 THEN <<DigitChar(n)>>
    ELSE Append(NatToString(n \div 10), DigitChar(n % 10))

\* x.toString() for a number value (NaN prints as "NaN")
NumberToString(x) ==
    IF ~IsNumber(x) THEN <<"N", "a", "N">>
    ELSE IF x.v < 0 THEN <<"-">> \o NatToString(0 - x.v)
    ELSE NatToString(x.v)

\* Math.round(num * 1000000) / 1000000, then toString
formatNumber(num) ==
    LET scaled == Mul(num, Num(1000000))
        rounded == IF IsNumber(scaled) THEN Num(scaled.v \div 1000000) ELSE NaN
    IN  NumberToString(rounded)

\* parts.join(sep) for a sequence of strings
RECURSIVE Join(_, _)
Join(parts, sep) ==
    IF parts = <<>> THEN <<>>
    ELSE IF Len(parts) = 1 THEN parts[1]
    ELSE parts[1] \o sep \o Join(Tail(parts), sep)

\* str.split(/[\s,]+/)
IsSeparator(ch) == IsSpace(ch) \/ ch = ","

RECURSIVE SkipSeparators(_, _)
SkipSeparators(s, i) ==
    IF i <= Len(s) /\ IsSeparator(s[i]) THEN SkipSeparators(s, i + 1) ELSE i

RECURSIVE SplitFrom(_, _, _, _)
SplitFrom(s, i, acc, cur) ==
    IF i > Len(s) THEN Append(acc, cur)
    ELSE IF IsSeparator(s[i])
         THEN SplitFrom(s, SkipSeparators(s, i), Append(acc, cur), <<>>)
         ELSE SplitFrom(s, i + 1, acc, Append(cur, s[i]))

Split(s) == SplitFrom(s, 1, <<>>, <<>>)

---------------------------------------------------------------------------
(* Transform expression parser *)

StrTranslate == <<"t", "r", "a", "n", "s", "l", "a", "t", "e">>
StrMatrix == <<"m", "a", "t", "r", "i", "x">>
StrScale == <<"s", "c", "a", "l", "e">>
StrRotate == <<"r", "o", "t", "a", "t", "e">>
StrSkewX == <<"s", "k", "e", "w", "X">>
StrSkewY == <<"s", "k", "e", "w", "Y">>

\* index of the first ")" at or after i (Len(s)+1 if none)
RECURSIVE FindClose(_, _)
FindClose(s, i) == IF i <= Len(s) /\ s[i] # ")" THEN FindClose(s, i + 1) ELSE i

\* one attempt of /(\w+)\s*\(([^)]+)\)/ anchored at index i
MatchGroupAt(s, i) ==
    LET j == SkipWord(s, i)
        k == SkipSpace(s, j)
        p == FindClose(s, k + 1)
    IN  IF /\ j > i
           /\ k <= Len(s) /\ s[k] = "("
           /\ p <= Len(s) /\ p > k + 1
        THEN [found |-> TRUE, type |-> SubSeq(s, i, j - 1),
              argText |-> SubSeq(s, k + 1, p - 1), lastIndex |-> p + 1]
        ELSE [found |-> FALSE, type |-> <<>>, argText |-> <<>>, lastIndex |-> i]

\* regex.exec from lastIndex i: the leftmost match, or no match
RECURSIVE ExecGroup(_, _)
ExecGroup(s, i) ==
    IF i > Len(s) THEN [found |-> FALSE, type |-> <<>>, argText |-> <<>>, lastIndex |-> i]
    ELSE LET m == MatchGroupAt(s, i)
         IN  IF m.found THEN m ELSE ExecGroup(s, i + 1)

\* match[2].split(/[\s,]+/).map(parseFloat)
ParseArgs(argText) ==
    LET pieces == Split(argText)
    IN  [n \in 1..Len(pieces) |-> parseFloat(pieces[n])]

\* the while loop that collects {type, args} for every match
RECURSIVE CollectTransforms(_, _, _)
CollectTransforms(s, i, transforms) ==
    LET m == ExecGroup(s, i)
    IN  IF ~m.found THEN transforms
        ELSE CollectTransforms(s, m.lastIndex,
                 Append(transforms, [type |-> m.type, args |-> ParseArgs(m.argText)]))

createTransformMatrix(type, args) ==
    CASE type = StrTranslate ->
           LET tx == OrDefault(Arg(args, 0), Num(0))
               ty == OrDefault(Arg(args, 1), Num(0))
           IN  <<Num(1), Num(0), Num(0), Num(1), tx, ty>>
      [] type = StrMatrix ->
           IF Len(args) = 6 THEN args ELSE Identity
      [] type = StrScale ->
           LET sx == OrDefault(Arg(args, 0), Num(1))
               sy == IF Arg(args, 1) # Undefined THEN Arg(args, 1) ELSE sx
           IN  <<sx, Num(0), Num(0), sy, Num(0), Num(0)>>
      [] type = StrRotate ->
           LET angle == OrDefault(Arg(args, 0), Num(0))
               cx == OrDefault(Arg(args, 1), Num(0))
               cy == OrDefault(Arg(args, 2), Num(0))
               cos == Cos(angle)
               sin == Sin(angle)
           IN  IF StrictEq(cx, 0) /\ StrictEq(cy, 0)
               THEN <<cos, sin, Neg(sin), cos, Num(0), Num(0)>>
               ELSE multiplyMatrices(
                        <<Num(1), Num(0), Num(0), Num(1), cx, cy>>,
                        multiplyMatrices(
                            <<cos, sin, Neg(sin), cos, Num(0), Num(0)>>,
                            <<Num(1), Num(0), Num(0), Num(1), Neg(cx), Neg(cy)>>))
      [] type = StrSkewX ->
           LET angle == OrDefault(Arg(args, 0), Num(0))
           IN  <<Num(1), Num(0), Tan(angle), Num(1), Num(0), Num(0)>>
      [] type = StrSkewY ->
           LET angle == OrDefault(Arg(args, 0), Num(0))
           IN  <<Num(1), Tan(angle), Num(0), Num(1), Num(0), Num(0)>>
      [] OTHER -> Identity

\* the iteration with the operands of multiplyMatrices exchanged
ComposeStepSwapped(matrix, transform) ==
    multiplyMatrices(createTransformMatrix(transform.type, transform.args), matrix)

\* one iteration of "for (const {type, args} of transforms)"
ComposeStep(matrix, transform) ==
    multiplyMatrices(matrix, createTransformMatrix(transform.type, transform.args))

RECURSIVE ComposeAll(_, _, _)
ComposeAll(matrix, transforms, n) ==
    IF n > Len(transforms) THEN matrix
    ELSE ComposeAll(ComposeStep(matrix, transforms[n]), transforms, n + 1)

parseTransform(transformStr) ==
    IF transformStr = <<>> \/ transformStr = Null THEN Identity
    ELSE ComposeAll(Identity, CollectTransforms(transformStr, 1, <<>>), 1)

---------------------------------------------------------------------------
(* Path command transformer *)

CommandLetters == {"M", "m", "L", "l", "H", "h", "V", "v", "C", "c",
                   "S", "s", "Q", "q", "T", "t", "A", "a", "Z", "z"}

\* String(pathData): regex.exec coerces its argument to a string
CoerceToString(s) == IF s = Null THEN <<"n", "u", "l", "l">> ELSE s

\* one attempt of the path regex anchored at index i: a command letter, or a
\* number (an optional "-" and digits; the inputs have no "." and no exponent)
MatchTokenAt(s, i) ==
    LET j == IF s[i] = "-" THEN i + 1 ELSE i
        k == SkipDigits(s, j)
    IN  IF s[i] \in CommandLetters
        THEN [kind |-> "cmd", text |-> <<s[i]>>, lastIndex |-> i + 1]
        ELSE IF k > j
        THEN [kind |-> "num", text |-> SubSeq(s, i, k - 1), lastIndex |-> k]
        ELSE [kind |-> "none", text |-> <<>>, lastIndex |-> i]

\* the tokenizing while loop, with the final "save last command"
RECURSIVE Tokenize(_, _, _, _, _)
Tokenize(s, i, commands, currentCommand, args) ==
    IF i > Len(s)
    THEN IF currentCommand # ""
         THEN Append(commands, [cmd |-> currentCommand, args |-> args])
         ELSE commands
    ELSE LET m == MatchTokenAt(s, i)
         IN  IF m.kind = "cmd"
             THEN Tokenize(s, m.lastIndex,
                      IF currentCommand # ""
                      THEN Append(commands, [cmd |-> currentCommand, args |-> args])
                      ELSE commands,
                      m.text[1], <<>>)
             ELSE IF m.kind = "num"
             THEN Tokenize(s, m.lastIndex, commands, currentCommand,
                           Append(args, parseFloat(m.text)))
             ELSE Tokenize(s, i + 1, commands, currentCommand, args)

\* cmd.toUpperCase() and cmd.toLowerCase() on a command letter
ToUpperCase(ch) ==
    CASE ch = "m" -> "M" [] ch = "l" -> "L" [] ch = "h" -> "H" [] ch = "v" -> "V"
      [] ch = "c" -> "C" [] ch = "s" -> "S" [] ch = "q" -> "Q" [] ch = "t" -> "T"
      [] ch = "a" -> "A" [] ch = "z" -> "Z" [] OTHER -> ch

ToLowerCase(ch) ==
    CASE ch = "M" -> "m" [] ch = "L" -> "l" [] ch = "H" -> "h" [] ch = "V" -> "v"
      [] ch = "C" -> "c" [] ch = "S" -> "s" [] ch = "Q" -> "q" [] ch = "T" -> "t"
      [] ch = "A" -> "a" [] ch = "Z" -> "z" [] OTHER -> ch

toAbsolute(isRelative, currentPos, x, y) ==
    IF isRelative THEN <<Add(currentPos[1], x), Add(currentPos[2], y)>> ELSE <<x, y>>

\* formatNumber(tx) + ',' + formatNumber(ty)
FormatPoint(pt) == formatNumber(pt[1]) \o <<",">> \o formatNumber(pt[2])

\* number of arguments one loop iteration steps over
Stride(cmdUpper) ==
    CASE cmdUpper \in {"M", "L", "T"} -> 2
      [] cmdUpper \in {"H", "V"} -> 1
      [] cmdUpper = "C" -> 6
      [] cmdUpper \in {"S", "Q"} -> 4
      [] cmdUpper = "A" -> 7

\* the body of one loop iteration at index i: the strings pushed to parts, the
\* new position, and whether the iteration threw (the default case of the
\* switch is not modelled: the tokenizer yields no letter outside the cases)
LoopBody(cmdUpper, args, i, matrix, currentPos, isRelative) ==
    CASE cmdUpper \in {"M", "L", "T"} ->
           LET p == toAbsolute(isRelative, currentPos, Arg(args, i), Arg(args, i + 1))
               t == applyTransform(matrix, p[1], p[2])
           IN  [pushed |-> <<FormatPoint(t)>>, newPos |-> t, threw |-> FALSE]
      [] cmdUpper = "H" ->
           LET p == toAbsolute(isRelative, currentPos, Arg(args, i), Num(0))
               t == applyTransform(matrix, p[1], p[2])
           IN  [pushed |-> <<FormatPoint(t)>>, newPos |-> t, threw |-> FALSE]
      [] cmdUpper = "V" ->
           LET p == toAbsolute(isRelative, currentPos, Num(0), Arg(args, i))
               t == applyTransform(matrix, p[1], p[2])
           IN  [pushed |-> <<FormatPoint(t)>>, newPos |-> t, threw |-> FALSE]
      [] cmdUpper = "C" ->
           LET p1 == toAbsolute(isRelative, currentPos, Arg(args, i), Arg(args, i + 1))
               p2 == toAbsolute(isRelative, currentPos, Arg(args, i + 2), Arg(args, i + 3))
               p == toAbsolute(isRelative, currentPos, Arg(args, i + 4), Arg(args, i + 5))
               t1 == applyTransform(matrix, p1[1], p1[2])
               t2 == applyTransform(matrix, p2[1], p2[2])
               t == applyTransform(matrix, p[1], p[2])
           IN  [pushed |-> <<FormatPoint(t1), FormatPoint(t2), FormatPoint(t)>>,
                newPos |-> t, threw |-> FALSE]
      [] cmdUpper \in {"S", "Q"} ->
           LET p1 == toAbsolute(isRelative, currentPos, Arg(args, i), Arg(args, i + 1))
               p == toAbsolute(isRelative, currentPos, Arg(args, i + 2), Arg(args, i + 3))
               t1 == applyTransform(matrix, p1[1], p1[2])
               t == applyTransform(matrix, p[1], p[2])
           IN  [pushed |-> <<FormatPoint(t1), FormatPoint(t)>>,
                newPos |-> t, threw |-> FALSE]
      [] cmdUpper = "A" ->
           LET rx == Arg(args, i)
               ry == Arg(args, i + 1)
               rotation == Arg(args, i + 2)
               largeArc == Arg(args, i + 3)
               sweep == Arg(args, i + 4)
               p == toAbsolute(isRelative, currentPos, Arg(args, i + 5), Arg(args, i + 6))
               t == applyTransform(matrix, p[1], p[2])
           IN  IF largeArc = Undefined \/ sweep = Undefined
               THEN \* undefined.toString() is a TypeError
                    [pushed |-> <<>>, newPos |-> currentPos, threw |-> TRUE]
               ELSE [pushed |-> << formatNumber(rx) \o <<",">> \o formatNumber(ry),
                                   formatNumber(rotation),
                                   NumberToString(largeArc),
                                   NumberToString(sweep),
                                   FormatPoint(t) >>,
                     newPos |-> t, threw |-> FALSE]

\* for (let i = 0; i < args.length; i += stride) { ... }
RECURSIVE CommandLoop(_, _, _, _, _, _, _, _)
CommandLoop(cmdUpper, args, i, matrix, currentPos, isRelative, parts, newPos) ==
    IF i >= Len(args) THEN [parts |-> parts, newPos |-> newPos, threw |-> FALSE]
    ELSE LET b == LoopBody(cmdUpper, args, i, matrix, currentPos, isRelative)
         IN  IF b.threw THEN [parts |-> parts, newPos |-> newPos, threw |-> TRUE]
             ELSE CommandLoop(cmdUpper, args, i + Stride(cmdUpper), matrix, currentPos,
                              isRelative, parts \o b.pushed, b.newPos)

\* the letter pushed first: H and V are re-emitted as L
EmittedLetter(cmdUpper) == IF cmdUpper \in {"H", "V"} THEN "L" ELSE cmdUpper

\* newPos is <<>> for the null that Z returns
transformCommand(cmd, args, matrix, currentPos) ==
    LET isRelative == cmd = ToLowerCase(cmd)
        cmdUpper == ToUpperCase(cmd)
    IN  IF cmdUpper = "Z"
        THEN [output |-> <<"Z">>, newPos |-> <<>>, threw |-> FALSE]
        ELSE LET r == CommandLoop(cmdUpper, args, 0, matrix, currentPos, isRelative,
                                  << <<EmittedLetter(cmdUpper)>> >>, currentPos)
             IN  [output |-> Join(r.parts, <<" ">>), newPos |-> r.newPos,
                  threw |-> r.threw]

\* the loop over the commands: output is the array of pushed strings
RECURSIVE TransformCommands(_, _, _, _, _)
TransformCommands(commands, n, matrix, output, currentPos) ==
    IF n > Len(commands)
    THEN [threw |-> FALSE, output |-> Join(output, <<>>), currentPos |-> currentPos]
    ELSE LET r == transformCommand(commands[n].cmd, commands[n].args, matrix, currentPos)
         IN  IF r.threw
             THEN [threw |-> TRUE, output |-> <<>>, currentPos |-> currentPos]
             ELSE TransformCommands(commands, n + 1, matrix, Append(output, r.output),
                                    IF r.newPos # <<>> THEN r.newPos ELSE currentPos)

transformPathData(pathData, matrix) ==
    IF isIdentityMatrix(matrix)
    THEN [threw |-> FALSE, output |-> pathData, currentPos |-> <<Num(0), Num(0)>>]
    ELSE TransformCommands(Tokenize(CoerceToString(pathData), 1, <<>>, "", <<>>),
                           1, matrix, <<>>, <<Num(0), Num(0)>>)

---------------------------------------------------------------------------
(* Primitive shape transformer *)

\* a === 1 && b === 0 && c === 0 && d === 1
IsTranslationOnly(matrix) ==
    /\ StrictEq(matrix[1], 1) /\ StrictEq(matrix[2], 0)
    /\ StrictEq(matrix[3], 0) /\ StrictEq(matrix[4], 1)

transformEllipse(cx, cy, rx, ry, matrix) ==
    IF IsTranslationOnly(matrix)
    THEN [cx |-> Add(cx, matrix[5]), cy |-> Add(cy, matrix[6]), rx |-> rx, ry |-> ry]
    ELSE LET newC == applyTransform(matrix, cx, cy)
             rx1 == applyTransform(matrix, rx, Num(0))[1]
             ry1 == applyTransform(matrix, Num(0), ry)[2]
         IN  [cx |-> newC[1], cy |-> newC[2],
              rx |-> Abs(Sub(rx1, matrix[5])), ry |-> Abs(Sub(ry1, matrix[6]))]

\* the corners array with only two opposite corners
RectCornersDiagonal(x, y, width, height) ==
    << <<x, y>>, <<Add(x, width), Add(y, height)>> >>

\* the corners array of transformRect
RectCorners(x, y, width, height) ==
    << <<x, y>>, <<Add(x, width), y>>,
       <<Add(x, width), Add(y, height)>>, <<x, Add(y, height)>> >>

\* Math.min(...values) and Math.max(...values) over a non-empty array
RECURSIVE MathMin(_)
MathMin(values) ==
    IF Len(values) = 1 THEN values[1] ELSE Min2(values[1], MathMin(Tail(values)))

RECURSIVE MathMax(_)
MathMax(values) ==
    IF Len(values) = 1 THEN values[1] ELSE Max2(values[1], MathMax(Tail(values)))

transformRect(x, y, width, height, matrix) ==
    IF IsTranslationOnly(matrix)
    THEN [x |-> Add(x, matrix[5]), y |-> Add(y, matrix[6]),
          width |-> width, height |-> height]
    ELSE LET corners == RectCorners(x, y, width, height)
             transformed == [n \in 1..Len(corners) |->
                                applyTransform(matrix, corners[n][1], corners[n][2])]
             xs == [n \in 1..Len(transformed) |-> transformed[n][1]]
             ys == [n \in 1..Len(transformed) |-> transformed[n][2]]
             minX == MathMin(xs)
             minY == MathMin(ys)
             maxX == MathMax(xs)
             maxY == MathMax(ys)
         IN  [x |-> minX, y |-> minY,
              width |-> Sub(maxX, minX), height |-> Sub(maxY, minY)]

---------------------------------------------------------------------------
(* Inputs of the calls *)

\* transform groups name(argText) that an expression is built from
GroupPool ==
    { [name |-> <<"t", "r", "a", "n", "s", "l", "a", "t", "e">>, argText |-> <<"5", ",", "5">>],
      [name |-> <<"s", "c", "a", "l", "e">>, argText |-> <<"2">>],
      [name |-> <<"s", "c", "a", "l", "e">>, argText |-> <<"2", ",", "x">>],
      [name |-> <<"m", "a", "t", "r", "i", "x">>, argText |-> <<"1", ",", "0", ",", "0", ",", "1", ",", "0", ",", "x">>],
      [name |-> <<"m", "a", "t", "r", "i", "x">>, argText |-> <<"0", ",", "1", ",", "-", "1", ",", "0", ",", "0", ",", "0">>],
      [name |-> <<"t", "r", "a", "n", "s", "l", "a", "t", "e">>, argText |-> <<" ", "3", ",", "4">>],
      [name |-> <<"t", "r", "a", "n", "s", "l", "a", "t", "e">>, argText |-> <<"3", ",", "4">>],
      [name |-> <<"f", "o", "o">>, argText |-> <<"1", ",", "2", ",", "3">>],
      [name |-> <<"r", "o", "t", "a", "t", "e">>, argText |-> <<"0", ",", "5", ",", "5">>],
      [name |-> <<"s", "k", "e", "w", "X">>, argText |-> <<"0">>],
      [name |-> <<"s", "k", "e", "w", "Y">>, argText |-> <<"x">>] }

\* the text of one group and of an expression: groups separated by a space
RenderGroup(g) == g.name \o <<"(">> \o g.argText \o <<")">>

RECURSIVE RenderExpr(_)
RenderExpr(gs) ==
    IF gs = <<>> THEN <<>>
    ELSE IF Len(gs) = 1 THEN RenderGroup(gs[1])
    ELSE RenderGroup(gs[1]) \o <<" ">> \o RenderExpr(Tail(gs))

SeqsUpTo(S, n) == UNION {[1..k -> S] : k \in 0..n}

\* path commands that a path-data string is built from: a letter and its
\* numbers ("x" is not a command letter)
StartPool ==
    { <<>>, <<[cmd |-> "M", args |-> <<0, 0>>]>>, <<[cmd |-> "M", args |-> <<3, 4>>]>> }

CmdPool ==
    { [cmd |-> "l", args |-> <<10, 0>>],
      [cmd |-> "l", args |-> <<0, 10>>],
      [cmd |-> "l", args |-> <<10, 0, 0, 10>>],
      [cmd |-> "L", args |-> <<10, 10>>],
      [cmd |-> "H", args |-> <<10>>],
      [cmd |-> "h", args |-> <<5>>],
      [cmd |-> "V", args |-> <<10>>],
      [cmd |-> "v", args |-> <<5>>],
      [cmd |-> "C", args |-> <<1, 2, 3, 4, 5, 6>>],
      [cmd |-> "c", args |-> <<1, 2, 3, 4, 5>>],
      [cmd |-> "s", args |-> <<1, 2, 3, 4>>],
      [cmd |-> "Q", args |-> <<1, 2, 3>>],
      [cmd |-> "t", args |-> <<5, 5>>],
      [cmd |-> "A", args |-> <<5, 5, 0, 0, 1, 10, 10>>],
      [cmd |-> "a", args |-> <<5, 5>>],
      [cmd |-> "Z", args |-> <<>>],
      [cmd |-> "z", args |-> <<>>],
      [cmd |-> "M", args |-> <<5>>],
      [cmd |-> "x", args |-> <<7>>] }

RECURSIVE RenderNumbers(_)
RenderNumbers(ns) ==
    IF ns = <<>> THEN <<>>
    ELSE IF Len(ns) = 1 THEN NumberToString(Num(ns[1]))
    ELSE NumberToString(Num(ns[1])) \o <<",">> \o RenderNumbers(Tail(ns))

RenderCmd(c) == <<c.cmd>> \o RenderNumbers(c.args)

RECURSIVE RenderPath(_)
RenderPath(cs) ==
    IF cs = <<>> THEN <<>>
    ELSE IF Len(cs) = 1 THEN RenderCmd(cs[1])
    ELSE RenderCmd(cs[1]) \o <<" ">> \o RenderPath(Tail(cs))

PathMatrices == { Identity, Mat(1, 0, 0, 1, 1, 1), Mat(0, 1, -1, 0, 0, 0) }

ShapeMatrices ==
    { Identity, Mat(1, 0, 0, 1, 3, 4), Mat(1, 0, 0, 1, 2, 2), Mat(2, 0, 0, 2, 0, 0),
      Mat(2, 0, 0, 3, 1, 0), Mat(0, 1, -1, 0, 0, 0), Mat(1, 1, -1, 1, 5, 5),
      Mat(-1, 0, 0, 1, 0, 0) }

ParseCalls ==
    { [fn |-> "parseTransform", groups |-> gs, transformStr |-> RenderExpr(gs)] :
        gs \in SeqsUpTo(GroupPool, MaxGroups) }
    \cup { [fn |-> "parseTransform", groups |-> <<>>, transformStr |-> Null] }

PathCalls ==
    { [fn |-> "transformPathData", cmds |-> st \o cs,
       pathData |-> RenderPath(st \o cs), matrix |-> m] :
        st \in StartPool, cs \in SeqsUpTo(CmdPool, MaxCmds), m \in PathMatrices }
    \cup { [fn |-> "transformPathData", cmds |-> <<>>, pathData |-> Null, matrix |-> m] :
              m \in PathMatrices }

RectCalls ==
    { [fn |-> "transformRect", x |-> Num(x), y |-> Num(y), width |-> Num(w),
       height |-> Num(h), matrix |-> m] :
        x \in {0, -5}, y \in {0, 3}, w \in {10, 4}, h \in {10, 0}, m \in ShapeMatrices }

EllipseCalls ==
    { [fn |-> "transformEllipse", cx |-> Num(cx), cy |-> Num(cy), rx |-> Num(rx),
       ry |-> Num(ry), matrix |-> m] :
        cx \in {0, 3}, cy \in {0, -2}, rx \in {5, 0}, ry \in {3, 5}, m \in ShapeMatrices }

\* two matrices to compose and a point to apply the product to
ComposeCalls ==
    { [fn |-> "multiplyMatrices", m1 |-> m1, m2 |-> m2, x |-> Num(x), y |-> Num(y)] :
        m1 \in ShapeMatrices, m2 \in ShapeMatrices, x \in {0, 1, 3}, y \in {0, -2} }

NoCall == [fn |-> "none"]
NoResult == [none |-> TRUE]
EmptyCache == [s \in {} |-> Identity]

---------------------------------------------------------------------------
(* Calls of the exported functions *)

InitApi ==
    /\ call \in ParseCalls \cup PathCalls \cup RectCalls \cup EllipseCalls
               \cup ComposeCalls
    /\ result = NoResult
    /\ pc = "ready"
    /\ transformCache = EmptyCache
    /\ phase = "api"
    /\ processed = 0

CallParseTransform ==
    /\ pc = "ready" /\ call.fn = "parseTransform"
    /\ result' = parseTransform(call.transformStr)
    /\ pc' = "done"
    /\ UNCHANGED <<call, transformCache, phase, processed>>

CallTransformPathData ==
    /\ pc = "ready" /\ call.fn = "transformPathData"
    /\ result' = transformPathData(call.pathData, call.matrix)
    /\ pc' = "done"
    /\ UNCHANGED <<call, transformCache, phase, processed>>

CallTransformRect ==
    /\ pc = "ready" /\ call.fn = "transformRect"
    /\ result' = transformRect(call.x, call.y, call.width, call.height, call.matrix)
    /\ pc' = "done"
    /\ UNCHANGED <<call, transformCache, phase, processed>>

CallTransformEllipse ==
    /\ pc = "ready" /\ call.fn = "transformEllipse"
    /\ result' = transformEllipse(call.cx, call.cy, call.rx, call.ry, call.matrix)
    /\ pc' = "done"
    /\ UNCHANGED <<call, transformCache, phase, processed>>

\* multiplyMatrices(m1, m2), and applyTransform of the product to a point
CallMultiplyMatrices ==
    /\ pc = "ready" /\ call.fn = "multiplyMatrices"
    /\ \E product \in {multiplyMatrices(call.m1, call.m2)} :
         result' = [product |-> product,
                    image |-> applyTransform(product, call.x, call.y)]
    /\ pc' = "done"
    /\ UNCHANGED <<call, transformCache, phase, processed>>

NextApi ==
    \/ CallParseTransform
    \/ CallTransformPathData
    \/ CallTransformRect
    \/ CallTransformEllipse
    \/ CallMultiplyMatrices

SpecApi == InitApi /\ [][NextApi]_vars

Returned(fn) == pc = "done" /\ call.fn = fn

---------------------------------------------------------------------------
(* drawSVG: the element loops and the transform cache *)

\* getTransformMatrix with the cache keyed by the attribute without its spaces
StripSpaces(str) == SelectSeq(str, LAMBDA ch : ch # " ")

getTransformMatrixStrippedKey(cache, transformAttr) ==
    IF transformAttr = <<>> \/ transformAttr = Null
    THEN [cache |-> cache, matrix |-> <<>>]
    ELSE LET key == StripSpaces(transformAttr)
             c == IF key \in DOMAIN cache THEN cache
                  ELSE cache @@ (key :> parseTransform(transformAttr))
         IN  [cache |-> c, matrix |-> c[key]]

\* getTransformMatrix: the cache after the lookup and the matrix returned
\* (<<>> is the null returned for a missing or empty attribute)
getTransformMatrix(cache, transformAttr) ==
    IF transformAttr = <<>> \/ transformAttr = Null
    THEN [cache |-> cache, matrix |-> <<>>]
    ELSE LET c == IF transformAttr \in DOMAIN cache THEN cache
                  ELSE cache @@ (transformAttr :> parseTransform(transformAttr))
         IN  [cache |-> c, matrix |-> c[transformAttr]]

\* parseFloat(element.getAttribute(name)) || 0
NumericAttr(attr) == OrDefault(parseFloat(CoerceToString(attr)), Num(0))

\* attribute values of the elements of the document
TransformAttrs ==
    { Null, <<>>,
      <<"t", "r", "a", "n", "s", "l", "a", "t", "e", "(", "3", ",", "4", ")">>,
      <<"t", "r", "a", "n", "s", "l", "a", "t", "e", "(", " ", "3", ",", "4", ")">>,
      <<"s", "c", "a", "l", "e", "(", "2", ")">>,
      <<"f", "o", "o", "(", "1", ",", "2", ",", "3", ")">>,
      <<"s", "c", "a", "l", "e", "(", "2", ",", "x", ")">> }
PathAttrs == { Null, <<"M", "0", ",", "0", " ", "l", "1", "0", ",", "0">>, <<"M", "0", ",", "0", " ", "a", "5", ",", "5">> }
PointsAttrs == { Null, <<"0", ",", "0", " ", "1", "0", ",", "0", " ", "1", "0", ",", "1", "0">> }
CoordAttrs == { Null, <<"3">>, <<"-", "5">> }
SizeAttrs == { <<"1", "0">>, <<"x">> }

Loops == <<"path", "polygon", "rect", "circle", "ellipse", "finish">>
LoopAfter(p) == Loops[(CHOOSE n \in 1..Len(Loops) : Loops[n] = p) + 1]

Init ==
    /\ call = NoCall
    /\ result = NoResult
    /\ pc = "run"
    /\ transformCache = EmptyCache
    /\ phase = "path"
    /\ processed = 0

ProcessPath ==
    /\ phase = "path" /\ processed < MaxElements
    /\ \E d \in PathAttrs, transformAttr \in TransformAttrs :
         \E g \in {getTransformMatrix(transformCache, transformAttr)} :
         \E r \in {IF g.matrix # <<>> THEN transformPathData(d, g.matrix)
                   ELSE [threw |-> FALSE, output |-> d, currentPos |-> <<>>]} :
             /\ transformCache' = g.cache
             /\ call' = [fn |-> "drawSVG", element |-> "path",
                         transformAttr |-> transformAttr, d |-> d]
             /\ result' = [matrix |-> g.matrix, hit |-> transformAttr \in DOMAIN transformCache,
                           threw |-> r.threw,
                           pushed |-> [commands |-> r.output]]
             /\ phase' = IF r.threw THEN "threw" ELSE phase
    /\ processed' = processed + 1
    /\ UNCHANGED pc

ProcessPolygon ==
    /\ phase = "polygon" /\ processed < MaxElements
    /\ \E points \in PointsAttrs, transformAttr \in TransformAttrs :
         \E g \in {getTransformMatrix(transformCache, transformAttr)} :
         \E closed \in {<<"M">> \o CoerceToString(points) \o <<"z">>} :
         \E r \in {IF g.matrix # <<>> THEN transformPathData(closed, g.matrix)
                   ELSE [threw |-> FALSE, output |-> closed, currentPos |-> <<>>]} :
             /\ transformCache' = g.cache
             /\ call' = [fn |-> "drawSVG", element |-> "polygon",
                         transformAttr |-> transformAttr, points |-> points]
             /\ result' = [matrix |-> g.matrix, hit |-> transformAttr \in DOMAIN transformCache,
                           threw |-> r.threw,
                           pushed |-> [commands |-> r.output]]
             /\ phase' = IF r.threw THEN "threw" ELSE phase
    /\ processed' = processed + 1
    /\ UNCHANGED pc

ProcessRect ==
    /\ phase = "rect" /\ processed < MaxElements
    /\ \E xAttr \in CoordAttrs, wAttr \in SizeAttrs, transformAttr \in TransformAttrs :
         \E g \in {getTransformMatrix(transformCache, transformAttr)} :
         \E x \in {NumericAttr(xAttr)}, y \in {NumericAttr(Null)} :
         \E w \in {NumericAttr(wAttr)}, h \in {NumericAttr(wAttr)} :
         \E t \in {IF g.matrix # <<>> THEN transformRect(x, y, w, h, g.matrix)
                   ELSE [x |-> x, y |-> y, width |-> w, height |-> h]} :
             /\ transformCache' = g.cache
             /\ call' = [fn |-> "drawSVG", element |-> "rect",
                         transformAttr |-> transformAttr, x |-> xAttr, width |-> wAttr]
             /\ result' = [matrix |-> g.matrix, hit |-> transformAttr \in DOMAIN transformCache,
                           threw |-> FALSE,
                           pushed |-> [x |-> t.x, y |-> t.y,
                                       rx |-> NumericAttr(Null), ry |-> NumericAttr(Null),
                                       width |-> t.width, height |-> t.height]]
    /\ processed' = processed + 1
    /\ UNCHANGED <<pc, phase>>

ProcessCircle ==
    /\ phase = "circle" /\ processed < MaxElements
    /\ \E cxAttr \in CoordAttrs, rAttr \in SizeAttrs, transformAttr \in TransformAttrs :
         \E g \in {getTransformMatrix(transformCache, transformAttr)} :
         \E cx \in {NumericAttr(cxAttr)}, cy \in {NumericAttr(Null)} :
         \E r \in {NumericAttr(rAttr)} :
         \E t \in {IF g.matrix # <<>> THEN transformEllipse(cx, cy, r, r, g.matrix)
                   ELSE [cx |-> cx, cy |-> cy, rx |-> r, ry |-> r]} :
             /\ transformCache' = g.cache
             /\ call' = [fn |-> "drawSVG", element |-> "circle",
                         transformAttr |-> transformAttr, cx |-> cxAttr, r |-> rAttr]
             /\ result' = [matrix |-> g.matrix, hit |-> transformAttr \in DOMAIN transformCache,
                           threw |-> FALSE,
                           pushed |-> [cx |-> t.cx, cy |-> t.cy, rx |-> t.rx, ry |-> t.rx]]
    /\ processed' = processed + 1
    /\ UNCHANGED <<pc, phase>>

ProcessEllipse ==
    /\ phase = "ellipse" /\ processed < MaxElements
    /\ \E cxAttr \in CoordAttrs, ryAttr \in SizeAttrs, transformAttr \in TransformAttrs :
         \E g \in {getTransformMatrix(transformCache, transformAttr)} :
         \E cx \in {NumericAttr(cxAttr)}, cy \in {NumericAttr(Null)} :
         \E rx \in {NumericAttr(<<"5">>)}, ry \in {NumericAttr(ryAttr)} :
         \E t \in {IF g.matrix # <<>> THEN transformEllipse(cx, cy, rx, ry, g.matrix)
                   ELSE [cx |-> cx, cy |-> cy, rx |-> rx, ry |-> ry]} :
             /\ transformCache' = g.cache
             /\ call' = [fn |-> "drawSVG", element |-> "ellipse",
                         transformAttr |-> transformAttr, cx |-> cxAttr, ry |-> ryAttr]
             /\ result' = [matrix |-> g.matrix, hit |-> transformAttr \in DOMAIN transformCache,
                           threw |-> FALSE,
                           pushed |-> [cx |-> t.cx, cy |-> t.cy, rx |-> t.rx, ry |-> t.ry]]
    /\ processed' = processed + 1
    /\ UNCHANGED <<pc, phase>>

\* a for...of loop has no more elements: the next loop starts
NextLoop ==
    /\ phase \in {"path", "polygon", "rect", "circle", "ellipse"}
    /\ phase' = LoopAfter(phase)
    /\ UNCHANGED <<call, result, pc, transformCache, processed>>

\* fuse, organise, mirror and scale (outside the model), then return
Finish ==
    /\ phase = "finish"
    /\ phase' = "done"
    /\ pc' = "done"
    /\ UNCHANGED <<call, result, transformCache, processed>>

Next ==
    \/ ProcessPath
    \/ ProcessPolygon
    \/ ProcessRect
    \/ ProcessCircle
    \/ ProcessEllipse
    \/ NextLoop
    \/ Finish

Spec == Init /\ [][Next]_vars

---------------------------------------------------------------------------
(* Properties *)

\* C1: with a matrix exactly equal to (1,0,0,1,0,0), transformPathData returns
\* the path-data string it was given, unchanged, for every string (well-formed
\* or not): it is neither tokenized nor re-emitted, and nothing is thrown.
C1_IdentityReturnsPathData ==
    (Returned("transformPathData") /\ call.matrix = Mat(1, 0, 0, 1, 0, 0))
        => (~result.threw /\ result.output = call.pathData)

\* a malformed path (an arc with two numbers) came back verbatim under identity
C1_Witness ==
    /\ Returned("transformPathData")
    /\ call.matrix = Mat(1, 0, 0, 1, 0, 0)
    /\ call.pathData = <<"M", "0", ",", "0", " ", "a", "5", ",", "5">>
    /\ result.output = call.pathData

\* the absolute form of a path "M x,y" followed by single-pair "l dx,dy"
\* commands: every offset is added to the untransformed cursor
RECURSIVE AbsoluteForm(_, _, _, _)
AbsoluteForm(cmds, n, cursor, acc) ==
    IF n > Len(cmds) THEN acc
    ELSE LET c == cmds[n]
             pt == IF c.cmd = "l"
                   THEN <<cursor[1] + c.args[1], cursor[2] + c.args[2]>>
                   ELSE <<c.args[1], c.args[2]>>
         IN  AbsoluteForm(cmds, n + 1, pt,
                 Append(acc, [cmd |-> ToUpperCase(c.cmd), args |-> pt]))

IsRelativeAfterMove(cmds) ==
    /\ Len(cmds) >= 2
    /\ cmds[1].cmd = "M" /\ Len(cmds[1].args) = 2
    /\ \A n \in 2..Len(cmds) : cmds[n].cmd = "l" /\ Len(cmds[n].args) = 2

\* C2: under a non-identity matrix a path of relative commands after an
\* initial move is emitted as its absolute form is: every relative offset is
\* resolved against the untransformed cursor before the matrix is applied; and
\* "M0,0 l10,0 l0,10" under translate(1,1) emits (1,1), (11,1), (11,11) and
\* ends with the cursor at (11,11).
C2_RelativeResolvedAgainstAbsoluteCursor ==
    (Returned("transformPathData") /\ ~isIdentityMatrix(call.matrix)
        /\ IsRelativeAfterMove(call.cmds))
    => /\ ~result.threw
       /\ result.output =
             transformPathData(RenderPath(AbsoluteForm(call.cmds, 1, <<0, 0>>, <<>>)),
                               call.matrix).output
       /\ (call.pathData = <<"M", "0", ",", "0", " ", "l", "1", "0", ",", "0", " ", "l", "0", ",", "1", "0">> /\ call.matrix = Mat(1, 0, 0, 1, 1, 1))
             => /\ result.output = <<"M", " ", "1", ",", "1", "L", " ", "1", "1", ",", "1", "L", " ", "1", "1", ",", "1", "1">>
                /\ result.currentPos = <<Num(11), Num(11)>>

\* the matrix of one group of the expression
GroupMatrix(g) == createTransformMatrix(g.name, ParseArgs(g.argText))

\* ((I x M(g1)) x M(g2)) ... x M(gn)
RECURSIVE LeftFold(_)
LeftFold(gs) ==
    IF gs = <<>> THEN Mat(1, 0, 0, 1, 0, 0)
    ELSE multiplyMatrices(LeftFold(SubSeq(gs, 1, Len(gs) - 1)), GroupMatrix(gs[Len(gs)]))

GroupTranslate55 == [name |-> StrTranslate, argText |-> <<"5", ",", "5">>]
GroupScale2 == [name |-> StrScale, argText |-> <<"2">>]

\* C3: parseTransform returns the left fold of the matrix product over the
\* groups of the expression, starting from identity; "translate(5,5) scale(2)"
\* gives the product translate x scale = (2,0,0,2,5,5), and
\* "scale(2) translate(5,5)" gives a different matrix.
C3_ParseTransformIsLeftFold ==
    (Returned("parseTransform") /\ call.transformStr # Null)
    => /\ result = LeftFold(call.groups)
       /\ call.groups = <<GroupTranslate55, GroupScale2>>
             => result = Mat(2, 0, 0, 2, 5, 5)
       /\ call.groups = <<GroupScale2, GroupTranslate55>>
             => result # Mat(2, 0, 0, 2, 5, 5)

C3_Witness ==
    /\ Returned("parseTransform")
    /\ call.groups = <<GroupTranslate55, GroupScale2>>
    /\ result = Mat(2, 0, 0, 2, 5, 5)

KnownNames == {StrTranslate, StrMatrix, StrScale, StrRotate, StrSkewX, StrSkewY}
KnownGroups(gs) == SelectSeq(gs, LAMBDA g : g.name \in KnownNames)

\* C4: parseTransform returns (1,0,0,1,0,0) for an empty or absent expression
\* and for one with only unknown function names; in any expression the result
\* equals that of the expression with the unknown groups removed.
C4_UnknownGroupsContributeIdentity ==
    Returned("parseTransform")
    => /\ KnownGroups(call.groups) = <<>> => result = Mat(1, 0, 0, 1, 0, 0)
       /\ result = parseTransform(RenderExpr(KnownGroups(call.groups)))

\* C5: under a non-identity matrix transformPathData returns a string and
\* raises no error, whatever the commands and their argument counts.
C5_TransformPathDataNeverThrows ==
    (Returned("transformPathData") /\ ~isIdentityMatrix(call.matrix))
        => ~result.threw

\* C6: the matrix returned by parseTransform has six numeric, non-NaN fields,
\* whatever the arguments of the groups.
C6_MatrixFieldsAreNumbers ==
    Returned("parseTransform")
        => (Len(result) = 6 /\ \A n \in 1..6 : IsNumber(result[n]))

\* the command letters of a string, in order
LettersOf(str) == SelectSeq(str, LAMBDA ch : ch \in CommandLetters)

\* H, h, V, v become L; every other letter becomes its upper-case form
ExpectedLetters(letters) ==
    [n \in 1..Len(letters) |->
        IF letters[n] \in {"H", "h", "V", "v"} THEN "L" ELSE ToUpperCase(letters[n])]

\* C7: under a non-identity matrix the command letters of the output are the
\* command letters of the input, in order, with H, h, V, v replaced by L and
\* every other letter in upper case; the output has no H, no V and no
\* lower-case command letter.
C7_OutputLetterSequence ==
    (Returned("transformPathData") /\ ~isIdentityMatrix(call.matrix))
    => /\ ~result.threw
       /\ LettersOf(result.output)
             = ExpectedLetters(LettersOf(CoerceToString(call.pathData)))

\* C8: in every state of a drawSVG run each cache entry for key s holds
\* parseTransform(s), every lookup of a non-empty attribute s returned
\* parseTransform(s) whatever was looked up before, and an entry once
\* inserted is never changed or removed.
C8_CacheIsParseTransform ==
    /\ [](\A str \in DOMAIN transformCache : transformCache[str] = parseTransform(str))
    /\ []((call.fn = "drawSVG" /\ call.transformAttr \notin {<<>>, Null})
            => /\ result.matrix = parseTransform(call.transformAttr)
               /\ call.transformAttr \in DOMAIN transformCache)
    /\ [][\A str \in DOMAIN transformCache :
            str \in DOMAIN transformCache' /\ transformCache'[str] = transformCache[str]]_vars

\* a lookup that hit the cache while it held two entries
C8_Witness ==
    /\ call.fn = "drawSVG"
    /\ result.hit
    /\ Cardinality(DOMAIN transformCache) >= 2
    /\ result.matrix = parseTransform(call.transformAttr)

\* a*x + c*y + e and b*x + d*y + f on integers
ImageX(m, x, y) == m[1].v * x + m[3].v * y + m[5].v
ImageY(m, x, y) == m[2].v * x + m[4].v * y + m[6].v

SetMin(S) == CHOOSE v \in S : \A u \in S : v <= u
SetMax(S) == CHOOSE v \in S : \A u \in S : v >= u

CornerSet(x, y, w, h) == { <<x, y>>, <<x + w, y>>, <<x + w, y + h>>, <<x, y + h>> }

\* C9: transformRect with a = 1, b = 0, c = 0, d = 1 returns
\* {x + e, y + f, width, height}; with any other matrix it returns the
\* axis-aligned bounding box of the four transformed corners.
C9_RectIsTranslatedOrBoundingBox ==
    Returned("transformRect")
    => LET m == call.matrix
           xs == { ImageX(m, p[1], p[2]) :
                     p \in CornerSet(call.x.v, call.y.v, call.width.v, call.height.v) }
           ys == { ImageY(m, p[1], p[2]) :
                     p \in CornerSet(call.x.v, call.y.v, call.width.v, call.height.v) }
       IN  IF m[1].v = 1 /\ m[2].v = 0 /\ m[3].v = 0 /\ m[4].v = 1
           THEN result = [x |-> Num(call.x.v + m[5].v), y |-> Num(call.y.v + m[6].v),
                          width |-> call.width, height |-> call.height]
           ELSE result = [x |-> Num(SetMin(xs)), y |-> Num(SetMin(ys)),
                          width |-> Num(SetMax(xs) - SetMin(xs)),
                          height |-> Num(SetMax(ys) - SetMin(ys))]

\* the box of {0,0,10,10} under (1,1,-1,1,5,5) is {-5,5,20,20}
C9_Witness ==
    /\ Returned("transformRect")
    /\ call.matrix = Mat(1, 1, -1, 1, 5, 5)
    /\ call.x = Num(0) /\ call.y = Num(0) /\ call.width = Num(10) /\ call.height = Num(10)
    /\ result = [x |-> Num(-5), y |-> Num(5), width |-> Num(20), height |-> Num(20)]

\* C10: with a matrix that is not translation-only transformEllipse returns
\* the center apply(m, cx, cy), new rx the length of (a*rx, b*rx) and new ry
\* the length of (c*ry, d*ry); a 90-degree rotation keeps the radii.
C10_EllipseRadiiAreOffsetLengths ==
    (Returned("transformEllipse") /\ ~IsTranslationOnly(call.matrix))
    => LET m == call.matrix
       IN  /\ result.cx = Num(ImageX(m, call.cx.v, call.cy.v))
           /\ result.cy = Num(ImageY(m, call.cx.v, call.cy.v))
           /\ IsNumber(result.rx) /\ result.rx.v >= 0
           /\ result.rx.v * result.rx.v
                 = (m[1].v * call.rx.v) * (m[1].v * call.rx.v)
                   + (m[2].v * call.rx.v) * (m[2].v * call.rx.v)
           /\ IsNumber(result.ry) /\ result.ry.v >= 0
           /\ result.ry.v * result.ry.v
                 = (m[3].v * call.ry.v) * (m[3].v * call.ry.v)
                   + (m[4].v * call.ry.v) * (m[4].v * call.ry.v)

\* the numeric tokens of a path-data string, in order
RECURSIVE FlattenArgs(_)
FlattenArgs(commands) ==
    IF commands = <<>> THEN <<>>
    ELSE commands[1].args \o FlattenArgs(Tail(commands))

NumbersOf(str) == FlattenArgs(Tokenize(str, 1, <<>>, "", <<>>))

\* a command with several coordinate pairs written as one command per pair
SplitCmd(c) ==
    [k \in 1..(Len(c.args) \div 2) |->
        [cmd |-> c.cmd, args |-> SubSeq(c.args, 2 * k - 1, 2 * k)]]

RECURSIVE SplitForm(_)
SplitForm(cmds) ==
    IF cmds = <<>> THEN <<>> ELSE SplitCmd(cmds[1]) \o SplitForm(Tail(cmds))

\* moves and relative lines with complete pairs, one line with several pairs
HasRepeatedGroups(cmds) ==
    /\ \A n \in 1..Len(cmds) :
          /\ cmds[n].cmd \in {"M", "l"}
          /\ Len(cmds[n].args) >= 2 /\ Len(cmds[n].args) % 2 = 0
    /\ \E n \in 1..Len(cmds) : cmds[n].cmd = "l" /\ Len(cmds[n].args) > 2

\* C11: when a lower-case command letter is followed by several coordinate
\* groups, each group is resolved against the point reached by the previous
\* group of that command: "l10,0 0,10" gives the same points as "l10,0 l0,10".
C11_RepeatedGroupsAdvanceCursor ==
    (Returned("transformPathData") /\ ~isIdentityMatrix(call.matrix)
        /\ HasRepeatedGroups(call.cmds))
    => /\ ~result.threw
       /\ NumbersOf(result.output)
             = NumbersOf(transformPathData(RenderPath(SplitForm(call.cmds)),
                                           call.matrix).output)

\* an absolute move to a point followed by one H, h, V or v with one value
IsMoveThenAxisLine(cmds) ==
    /\ Len(cmds) = 2
    /\ cmds[1].cmd = "M" /\ Len(cmds[1].args) = 2
    /\ cmds[2].cmd \in {"H", "h", "V", "v"} /\ Len(cmds[2].args) = 1

\* the point that the H, h, V or v command of such a path denotes
AxisLinePoint(cmds) ==
    LET x == cmds[1].args[1]
        y == cmds[1].args[2]
        v == cmds[2].args[1]
    IN  CASE cmds[2].cmd = "H" -> <<v, y>>
          [] cmds[2].cmd = "h" -> <<x + v, y>>
          [] cmds[2].cmd = "V" -> <<x, v>>
          [] cmds[2].cmd = "v" -> <<x, y + v>>

\* C12: under a non-identity matrix an H value x (absolute or relative) is
\* expanded to (x, cursorY) and a V value y to (cursorX, y) before the matrix
\* is applied: after "M3,4", "H10" emits apply(m, 10, 4) and "V10" emits
\* apply(m, 3, 10).
C12_AxisLinesUseCursor ==
    (Returned("transformPathData") /\ ~isIdentityMatrix(call.matrix)
        /\ IsMoveThenAxisLine(call.cmds))
    => LET m == call.matrix
           p == AxisLinePoint(call.cmds)
           start == call.cmds[1].args
       IN  /\ ~result.threw
           /\ NumbersOf(result.output)
                 = << Num(ImageX(m, start[1], start[2])), Num(ImageY(m, start[1], start[2])),
                      Num(ImageX(m, p[1], p[2])), Num(ImageY(m, p[1], p[2])) >>

\* the number of arguments of one group of a command
Arity(letter) ==
    CASE ToUpperCase(letter) \in {"M", "L", "T"} -> 2
      [] ToUpperCase(letter) \in {"H", "V"} -> 1
      [] ToUpperCase(letter) = "C" -> 6
      [] ToUpperCase(letter) \in {"S", "Q"} -> 4
      [] ToUpperCase(letter) = "A" -> 7
      [] ToUpperCase(letter) = "Z" -> 1

\* the commands with the incomplete trailing group of each one dropped
CompleteGroups(cmds) ==
    [n \in 1..Len(cmds) |->
        [cmd |-> cmds[n].cmd,
         args |-> SubSeq(cmds[n].args, 1,
                         (Len(cmds[n].args) \div Arity(cmds[n].cmd)) * Arity(cmds[n].cmd))]]

HasIncompleteGroup(cmds) ==
    /\ \A n \in 1..Len(cmds) : cmds[n].cmd \in CommandLetters
    /\ \E n \in 1..Len(cmds) :
          /\ ToUpperCase(cmds[n].cmd) \in {"M", "L", "T", "C", "S", "Q", "A"}
          /\ Len(cmds[n].args) % Arity(cmds[n].cmd) # 0

\* C13: under a non-identity matrix a command whose argument count is not a
\* multiple of its arity is emitted with its complete groups only: the trailing
\* incomplete group is dropped, and the output has no partial tuple and no
\* NaN token.
C13_IncompleteGroupsAreDropped ==
    (Returned("transformPathData") /\ ~isIdentityMatrix(call.matrix)
        /\ HasIncompleteGroup(call.cmds))
    => /\ ~result.threw
       /\ \A n \in 1..Len(result.output) : result.output[n] # "N"
       /\ result.output
             = transformPathData(RenderPath(CompleteGroups(call.cmds)), call.matrix).output

\* the image of the point (x, y) under m, as a pair of integers
ImageOf(m, pt) == <<ImageX(m, pt[1], pt[2]), ImageY(m, pt[1], pt[2])>>

\* C14 as stated: compose(m1, m2) is the matrix equivalent to applying m1
\* first and then m2: apply(compose(m1, m2), x, y) = apply(m2, apply(m1, x, y)).
C14_ComposeAppliesFirstThenSecond ==
    Returned("multiplyMatrices")
    => LET q == ImageOf(call.m2, ImageOf(call.m1, <<call.x.v, call.y.v>>))
       IN  result.image = <<Num(q[1]), Num(q[2])>>

\* C14 as amended: multiplyMatrices(m1, m2) is the matrix product m1 x m2,
\* which applies m2 first and then m1:
\* apply(compose(m1, m2), x, y) = apply(m1, apply(m2, x, y)).
C14_ComposeAppliesSecondThenFirst ==
    Returned("multiplyMatrices")
    => LET q == ImageOf(call.m1, ImageOf(call.m2, <<call.x.v, call.y.v>>))
       IN  result.image = <<Num(q[1]), Num(q[2])>>

\* translate(3,4) composed with scale(2) sends (1,0) to (5,4): scaled, then moved
C14_Witness ==
    /\ Returned("multiplyMatrices")
    /\ call.m1 = Mat(1, 0, 0, 1, 3, 4) /\ call.m2 = Mat(2, 0, 0, 2, 0, 0)
    /\ call.x = Num(1) /\ call.y = Num(0)
    /\ result.product = Mat(2, 0, 0, 2, 3, 4)
    /\ result.image = <<Num(5), Num(4)>>

====
